---------------------------- MODULE Spec2Model ----------------------------
(***************************************************************************)
(* Learning Journal PWA: the storage manager (local slot + remote JSON     *)
(* service) and the UI handlers of main.js that drive it.                  *)
(*                                                                         *)
(* Spec       the handlers of main.js interleaved at their await points,   *)
(*            against the local slot and the remote service.               *)
(* SpecMerge  StorageManager.syncWithJSON as a function of its inputs.     *)
(* SpecLocal  the local operations (read, create, delete, merge, the local *)
(*            half of an update), called on drawn local collections.       *)
(* SpecRemote the remote halves of StorageManager and applyFilters, each   *)
(*            called on drawn outcomes of its HTTP exchanges.              *)
(* SpecWorker the service worker: install, activate and its fetch handler  *)
(*            against the origin's cache storage.                          *)
(***************************************************************************)
EXTENDS Integers, Sequences, FiniteSets

VARIABLES
    slot,      \* localStorage['journalEntries']: absent, a JSON array, or undecodable text
    remote,    \* the reflections kept by the remote service (reflections.json)
    useApi,    \* StorageManager.USE_API
    now,       \* the last value Date.now() returned
    form,      \* the entry form: data-editing-id and the submit button's data-updating
    tasks,     \* the handler invocations suspended at an await
    ops,       \* number of handler invocations started so far
    modal,     \* the last modal FormValidator.showModal displayed
    cards,     \* the dynamic entry cards of the grid, first child first
    counter,   \* the number the entries counter displays
    ready,     \* initializeApp has rendered once and registered the handlers
    mIn,       \* SpecMerge: the remote sequence handed to syncWithJSON;
               \* SpecWorker: the worker's phase, the cache storage and the network
    mLog       \* SpecMerge, SpecLocal, SpecRemote, SpecWorker: one record per call made

vars == <<slot, remote, useApi, now, form, tasks, ops, modal, cards, counter,
         ready, mIn, mLog>>

mainVars == <<remote, useApi, now, form, tasks, ops, modal, cards, counter, ready>>

mergeVars == <<mIn, mLog>>

-----------------------------------------------------------------------------
(* Bounds of the model. *)

\* Date.now() at page load.
StartClock == 9

\* Number of clock values the model lets Date.now() take after page load.
MaxTicks == 2

\* Handler invocations (submit, delete, clear, edit, render) per behaviour.
MaxOps == 2

\* Longest remote or local sequence SpecMerge draws as an input.
MaxMergeLen == 2

\* Longest local collection SpecLocal draws as an input.
MaxLocalLen == 3

\* Longest remote sequence SpecRemote draws as an input.
MaxRemoteLen == 2

MaxClock == StartClock + MaxTicks

-----------------------------------------------------------------------------
(* Values. *)

\* Date.now().toString(): the decimal digits of a non-negative integer.
Digit(d) ==
    CASE d = 0 -> "0" [] d = 1 -> "1" [] d = 2 -> "2" [] d = 3 -> "3"
      [] d = 4 -> "4" [] d = 5 -> "5" [] d = 6 -> "6" [] d = 7 -> "7"
      [] d = 8 -> "8" [] d = 9 -> "9"

RECURSIVE ToString(_)
ToString(n) ==
    IF n < 10 THEN Digit(n) ELSE ToString(n \div 10) \o Digit(n % 10)

\* new Date().toISOString().split('T')[0]: the calendar day a clock value falls in.
\* The day changes once inside the modelled clock range.
DateOf(t) ==
    IF t <= StartClock THEN "2024-01-01" ELSE "2024-01-02"

\* LocationService.getFullLocation() with the defaults of main.js:398-402 applied.
Location ==
    [city |-> "Unknown", state |-> "", country |-> "Unknown"]

\* What the user can type into the form (trimmed, content non-empty).
FormInputs ==
    {[title |-> "a", content |-> "x"], [title |-> "b", content |-> "y"]}

mkEntry(id, title, content, ts) ==
    [id |-> id, title |-> title, content |-> content,
     date |-> DateOf(ts), timestamp |-> ts, location |-> Location]

IdsOf(s) ==
    {s[i].id : i \in DOMAIN s}

HasId(s, id) ==
    \E i \in DOMAIN s : s[i].id = id

-----------------------------------------------------------------------------
(* The local slot. *)

Absent == [kind |-> "absent"]

Corrupt == [kind |-> "corrupt"]

\* JSON.stringify of an array of entries, as kept in the slot.
Stringify(entries) ==
    [kind |-> "json", val |-> entries]

\* A mutant of GetAllEntriesRaises: no catch, the error of JSON.parse gets out.
GetAllEntriesNoCatch(st) ==
    st.kind = "corrupt"

\* StorageManager.getAllEntries raises to its caller: never, the catch at
\* part_001:53-56 takes the error of JSON.parse.
GetAllEntriesRaises(st) ==
    FALSE

\* StorageManager.getAllEntries: null reads as [], undecodable text is caught as [].
GetAllEntries(st) ==
    IF st.kind = "json" THEN st.val ELSE <<>>

\* localStorage.setItem(KEYS.ENTRIES, JSON.stringify(entries)); it throws when the
\* quota is exceeded (wrote = FALSE), leaving the slot as it was.
SetItem(st, entries, wrote) ==
    IF wrote THEN Stringify(entries) ELSE st

\* A mutant of SyncWithJSON: local entries first, so the local copy wins.
SyncWithJSONLocalFirst(jsonEntries, st, wrote) ==
    LET localEntries == GetAllEntries(st)
        merged == localEntries \o
                  SelectSeq(jsonEntries, LAMBDA je : ~HasId(localEntries, je.id))
    IN  IF wrote
        THEN [ret |-> merged, store |-> SetItem(st, merged, TRUE)]
        ELSE [ret |-> jsonEntries, store |-> st]

\* A mutant of SyncWithJSON: every local entry is appended, also one the remote has.
SyncWithJSONAppendAll(jsonEntries, st, wrote) ==
    LET localEntries == GetAllEntries(st)
        merged == jsonEntries \o localEntries
    IN  IF wrote
        THEN [ret |-> merged, store |-> SetItem(st, merged, TRUE)]
        ELSE [ret |-> jsonEntries, store |-> st]

\* A mutant of SyncWithJSON: the local store is not read when the merge is written,
\* the slot is overwritten with the entries fetched earlier.
SyncWithJSONRemoteOnly(jsonEntries, st, wrote) ==
    IF wrote
    THEN [ret |-> jsonEntries, store |-> SetItem(st, jsonEntries, TRUE)]
    ELSE [ret |-> jsonEntries, store |-> st]

\* StorageManager.syncWithJSON: the value returned and the slot it leaves.
SyncWithJSON(jsonEntries, st, wrote) ==
    LET localEntries == GetAllEntries(st)
        merged == jsonEntries \o
                  SelectSeq(localEntries, LAMBDA le : ~HasId(jsonEntries, le.id))
    IN  IF wrote
        THEN [ret |-> merged, store |-> SetItem(st, merged, TRUE)]
        ELSE [ret |-> jsonEntries, store |-> st]

-----------------------------------------------------------------------------
(* The form, the modal and the suspended handlers. *)

\* The form as clearForm leaves it, with no data-editing-id and no data-updating.
CreateMode == [editingId |-> "", updating |-> FALSE]

NoInput == [title |-> "", content |-> ""]

NoModal ==
    [type |-> "none", op |-> "none", id |-> "", localOk |-> FALSE, jsonOk |-> FALSE]

\* FormValidator.showModal(type, ...) by handler t, with the two outcomes it decided on.
ShowModal(type, t) ==
    [type |-> type, op |-> t.op, id |-> t.id, localOk |-> t.localOk,
     jsonOk |-> t.jsonOk]

\* A handler invocation: op is the handler, pc the await it is suspended at.
NewTask(n, op, pc) ==
    [n |-> n, op |-> op, pc |-> pc, id |-> "", inp |-> NoInput, ts |-> 0,
     localOk |-> FALSE, jsonOk |-> FALSE, resp |-> <<>>, dels |-> <<>>]

-----------------------------------------------------------------------------
(* StorageManager: the local operations. *)

\* StorageManager.saveEntry(entry) for the entry main.js builds (title, content,
\* date, timestamp, location, and no id): the id is Date.now().toString() read
\* inside saveEntry, the entry goes to the front, and the result is the success flag.
SaveEntry(st, inp, ts, id, wrote) ==
    LET newEntry == mkEntry(id, inp.title, inp.content, ts)
    IN  [ok |-> wrote,
         store |-> SetItem(st, <<newEntry>> \o GetAllEntries(st), wrote)]

\* A mutant of DeleteEntry: only the first entry with the id is removed.
DeleteEntryFirstOnly(st, entryId, wrote) ==
    LET entries == GetAllEntries(st)
        first == IF \E i \in DOMAIN entries : entries[i].id = entryId
                 THEN CHOOSE i \in DOMAIN entries :
                         /\ entries[i].id = entryId
                         /\ \A j \in 1..(i - 1) : entries[j].id # entryId
                 ELSE 0
        kept == [i \in 1..(Len(entries) - (IF first = 0 THEN 0 ELSE 1)) |->
                    IF first = 0 \/ i < first THEN entries[i] ELSE entries[i + 1]]
    IN  [ok |-> wrote, store |-> SetItem(st, kept, wrote)]

\* StorageManager.deleteEntry(entryId): filter by id, rewrite the slot.
DeleteEntry(st, entryId, wrote) ==
    [ok |-> wrote,
     store |-> SetItem(st, SelectSeq(GetAllEntries(st), LAMBDA e : e.id # entryId),
                       wrote)]

\* StorageManager.clearAllEntries: localStorage.removeItem.
ClearAllEntries(st) ==
    [ok |-> TRUE, store |-> Absent]

\* entries.findIndex(e => e.id === editingId), 0 for -1.
FindIndex(entries, id) ==
    IF HasId(entries, id)
    THEN CHOOSE i \in DOMAIN entries :
            entries[i].id = id /\ \A j \in 1..(i - 1) : entries[j].id # id
    ELSE 0

\* A mutant of ApplyUpdates: the entry is replaced by a fresh one, its creation
\* timestamp lost.
ApplyUpdatesFresh(entries, id, inp) ==
    [entries EXCEPT ![FindIndex(entries, id)] =
        [@ EXCEPT !.title = inp.title, !.content = inp.content, !.timestamp = 0]]

\* entries[entryIndex] = { ...entries[entryIndex], ...updates }
ApplyUpdates(entries, id, inp) ==
    [entries EXCEPT ![FindIndex(entries, id)] =
        [@ EXCEPT !.title = inp.title, !.content = inp.content]]

\* The local half of an update (main.js:359-364): the whole collection is read, the
\* first entry with the id gets the new title and content, and the collection is
\* written back.  Nothing is written when no entry has the id.  The setItem at line
\* 363 is in no try block: when it throws (wrote = FALSE) the handler ends there.
UpdateLocal(st, id, inp, wrote) ==
    LET entries == GetAllEntries(st)
        found == HasId(entries, id)
    IN  [found |-> found,
         raised |-> found /\ ~wrote,
         store |-> IF found /\ wrote
                   THEN SetItem(st, ApplyUpdates(entries, id, inp), TRUE)
                   ELSE st]

-----------------------------------------------------------------------------
(* StorageManager: the remote halves, as far as the client decides them. *)

\* How one HTTP exchange can end: a decoded 2xx answer, a network error, a
\* non-success status, or a 2xx answer whose body does not decode.
Outcomes == {"ok", "neterr", "status", "baddata"}

\* The request reached the service and was carried out.
Applied(out) == out \in {"ok", "baddata"}

\* A mutant of ApiEnabled: the `if (!this.USE_API) return false` guards are missing.
ApiEnabledAlways ==
    TRUE

\* The guard of saveEntryToJSON, updateEntryInJSON, deleteEntryFromJSON and
\* clearAllEntriesFromJSON: with USE_API off they return false and issue nothing.
ApiEnabled ==
    useApi

\* A mutant of FetchEntriesFromJSON: no catch, a failed exchange raises.
FetchEntriesNoCatch(out, body) ==
    [raised |-> out # "ok", entries |-> IF out = "ok" THEN body ELSE <<>>]

\* fetchEntriesFromJSON: the decoded array, or [] from the catch of any failure.
FetchEntriesFromJSON(out, body) ==
    [raised |-> FALSE, entries |-> IF out = "ok" THEN body ELSE <<>>]

\* A mutant of WriteResult: response.ok is not looked at.
WriteResultAnyStatus(out) ==
    out \in {"ok", "status"}

\* saveEntryToJSON / updateEntryInJSON / deleteEntryFromJSON once a request was
\* issued: true after a decoded 2xx answer, false from the catch otherwise.
WriteResult(out) ==
    out = "ok"

\* A mutant of CreateReported: success only when the remote write succeeded.
CreateReportedRemoteOnly(localSuccess, jsonSuccess) ==
    jsonSuccess

\* A mutant of CreateReported: success only when both writes succeeded.
CreateReportedBoth(localSuccess, jsonSuccess) ==
    localSuccess /\ jsonSuccess

\* A mutant of UseLocalFallback: the fetched sequence is merged also when empty.
UseLocalFallbackNever(entries) ==
    FALSE

\* main.js:156, renderJournalEntries: an empty fetch result makes the render list
\* the local collection instead of merging.
UseLocalFallback(entries) ==
    Len(entries) = 0

\* A mutant of UpdateReported: the update is reported successful whatever happened.
UpdateReportedAlways(localApplied, jsonSuccess) ==
    TRUE

\* main.js:412, the create branch's success test.
CreateReported(localSuccess, jsonSuccess) ==
    localSuccess \/ jsonSuccess

\* main.js:369, the update branch's success test.
UpdateReported(localApplied, jsonSuccess) ==
    jsonSuccess

\* main.js:303, deleteEntry's success test.
DeleteReported(localSuccess, jsonSuccess) ==
    localSuccess \/ jsonSuccess

\* main.js:509, the clear-all handler's success test.
ClearReported(localSuccess, jsonSuccess) ==
    localSuccess \/ jsonSuccess

\* A mutant of DeletePromises: the deletions are awaited one after the other, so
\* only the first request is issued when the listing has returned.
DeletePromisesOneByOne(entries) ==
    [i \in DOMAIN entries |->
        [id |-> entries[i].id, st |-> IF i = 1 THEN "pending" ELSE "unissued"]]

\* clearAllEntriesFromJSON: entries.map(entry => this.deleteEntryFromJSON(entry.id)),
\* one request per listed entry, all issued before Promise.all is awaited.
DeletePromises(entries) ==
    [i \in DOMAIN entries |-> [id |-> entries[i].id, st |-> "pending"]]

\* A mutant of AllSettled: the join gives up at the first failed deletion, as
\* Promise.all would if deleteEntryFromJSON rejected.
SettledOrFailed(dels) ==
    \/ \A i \in DOMAIN dels : dels[i].st # "pending"
    \/ \E i \in DOMAIN dels : dels[i].st = "fail"

\* Promise.all(deletePromises) has settled: every deleteEntryFromJSON returned.
AllSettled(dels) ==
    \A i \in DOMAIN dels : dels[i].st # "pending"

\* A mutant of ClearAllResult: true only when every deletion returned true.
ClearAllResultAllOk(dels) ==
    \A i \in DOMAIN dels : dels[i].st = "ok"

\* clearAllEntriesFromJSON once Promise.all has settled (part_001:295-297): the
\* values the deletions resolved to are not looked at.
ClearAllResult(dels) ==
    TRUE

-----------------------------------------------------------------------------
(* StorageManager: search.  Where a search is modelled, titles, contents and   *)
(* keywords are sequences of characters.                                       *)

\* One character of String.prototype.toLowerCase, over the letters used.
LowerOf(c) ==
    CASE c = "A" -> "a" [] c = "B" -> "b" [] c = "E" -> "e" [] c = "H" -> "h"
      [] c = "L" -> "l" [] c = "P" -> "p" [] OTHER -> c

ToLowerCase(s) ==
    [i \in DOMAIN s |-> LowerOf(s[i])]

\* String.prototype.includes: q occurs in s at some offset.
Includes(s, q) ==
    \E k \in 0..(Len(s) - Len(q)) : SubSeq(s, k + 1, k + Len(q)) = q

\* The calendar-date strings of the model in their order as strings.
DateOrder ==
    <<"2024-01-01", "2024-01-02", "2024-01-15", "2024-02-01", "2024-02-15">>

DateRank(d) ==
    CHOOSE i \in DOMAIN DateOrder : DateOrder[i] = d

\* a >= b on date strings.
DateGeq(a, b) ==
    DateRank(a) >= DateRank(b)

\* A mutant of KeywordMatch: the content is not looked at.
KeywordMatchTitleOnly(entry, lowerQuery) ==
    Includes(ToLowerCase(entry.title), lowerQuery)

\* part_001:385-389, the keyword filter of clientSideSearch.
KeywordMatch(entry, lowerQuery) ==
    \/ Includes(ToLowerCase(entry.title), lowerQuery)
    \/ Includes(ToLowerCase(entry.content), lowerQuery)

\* StorageManager.clientSideSearch: up to three filters one after the other; an
\* empty keyword or bound is falsy and skips its filter.
ClientSideSearch(entries, query, dateFrom, dateTo) ==
    LET byQuery == IF query # <<>>
                   THEN SelectSeq(entries,
                                  LAMBDA e : KeywordMatch(e, ToLowerCase(query)))
                   ELSE entries
        byFrom == IF dateFrom # ""
                  THEN SelectSeq(byQuery, LAMBDA e : DateGeq(e.date, dateFrom))
                  ELSE byQuery
    IN  IF dateTo # ""
        THEN SelectSeq(byFrom, LAMBDA e : DateGeq(dateTo, e.date))
        ELSE byFrom

\* StorageManager.searchEntriesInJSON given how its exchanges end: out and served
\* for the search request, fetchOut and body for the fetch of the fallback.
SearchEntriesInJSON(enabled, out, served, fetchOut, body, query, dateFrom, dateTo) ==
    IF enabled /\ out = "ok"
    THEN [raised |-> FALSE, fellBack |-> FALSE, fetched |-> <<>>, entries |-> served]
    ELSE LET f == FetchEntriesFromJSON(fetchOut, body)
         IN  [raised |-> f.raised, fellBack |-> TRUE, fetched |-> f.entries,
              entries |-> ClientSideSearch(f.entries, query, dateFrom, dateTo)]

\* saveEntryToJSON, updateEntryInJSON and deleteEntryFromJSON as a whole: false
\* without a request when the API is disabled, else the result of the exchange.
RemoteWrite(enabled, out) ==
    [raised |-> FALSE, ok |-> enabled /\ WriteResult(out)]

-----------------------------------------------------------------------------
(* The remote service (backend/api.py, not part of the sources at hand). *)

\* POST /add_reflection: the payload is stored with an id the service derives from
\* its own creation time.
ServerAdd(rem, inp, ts, sid) ==
    Append(rem, mkEntry(sid, inp.title, inp.content, ts))

\* PUT /update_reflection/<id>: the given fields of the entry with that id.
ServerUpdate(rem, id, inp) ==
    [i \in DOMAIN rem |->
        IF rem[i].id = id
        THEN [rem[i] EXCEPT !.title = inp.title, !.content = inp.content]
        ELSE rem[i]]

\* DELETE /delete_reflection/<id>.
ServerDelete(rem, id) ==
    SelectSeq(rem, LAMBDA e : e.id # id)

\* GET /reflections/search: the entries that pass the filters given.
ServerSearch(rem, query, dateFrom, dateTo) ==
    ClientSideSearch(rem, query, dateFrom, dateTo)

-----------------------------------------------------------------------------
(* Spec: the handlers of main.js.  A handler runs from one await to the next in *)
(* one step.  The answer to a POST, PUT or DELETE and the handler's code up to  *)
(* its next await are one step: that code reads nothing another step could     *)
(* change in between.  The answer to a fetch and the code that consumes it are *)
(* two steps when that code reads the local slot (renderJournalEntries).       *)

Reverse(s) ==
    [i \in DOMAIN s |-> s[Len(s) + 1 - i]]

\* The name of a new handler invocation: the first one no suspended handler has.
FreeName ==
    CHOOSE n \in 1..(MaxOps + 1) :
        /\ \A t \in tasks : t.n # n
        /\ \A m \in 1..(n - 1) : \E t \in tasks : t.n = m

\* Entries a previous session or the command line of the backend left behind.
OldRemote == mkEntry("7", "a", "x", 7)

OldShared == mkEntry("8", "a", "x", 8)

OldLocal == mkEntry("8", "b", "y", 8)

InitRemotes == {<<>>, <<OldRemote, OldShared>>}

InitSlots == {Absent, Stringify(<<OldLocal>>)}

\* DOMContentLoaded: initializeApp has reached `await renderJournalEntries()`; the
\* handlers are registered once that render has returned.
Init ==
    /\ useApi \in BOOLEAN
    /\ remote \in InitRemotes
    /\ slot \in InitSlots
    /\ now = StartClock
    /\ form = CreateMode
    /\ tasks = {NewTask(1, "render", "fetch")}
    /\ ops = 0
    /\ modal = NoModal
    /\ cards = <<>>
    /\ counter = 0
    /\ ready = FALSE
    /\ mIn = <<>>
    /\ mLog = <<>>

\* The handler goes on to `await renderJournalEntries()`, which issues its fetch.
CallRender(rest, t) ==
    tasks' = rest \cup {[t EXCEPT !.pc = "fetch"]}

\* main.js:412-434, after both writes of a create.
AfterCreate(rest, t) ==
    IF CreateReported(t.localOk, t.jsonOk)
    THEN /\ modal' = ShowModal("success", t)
         /\ CallRender(rest, t)
    ELSE /\ modal' = ShowModal("error", t)
         /\ tasks' = rest

\* main.js:369-385, after both writes of an update.
AfterUpdate(rest, t) ==
    IF UpdateReported(t.localOk, t.jsonOk)
    THEN /\ modal' = ShowModal("success", t)
         /\ form' = CreateMode
         /\ CallRender(rest, t)
    ELSE /\ modal' = ShowModal("error", t)
         /\ tasks' = rest
         /\ UNCHANGED form

\* main.js:303-308, after both deletions; the success modal follows the render.
AfterDelete(rest, t) ==
    IF DeleteReported(t.localOk, t.jsonOk)
    THEN /\ CallRender(rest, t)
         /\ UNCHANGED modal
    ELSE /\ modal' = ShowModal("error", t)
         /\ tasks' = rest

\* main.js:509-514, after both clears; the success modal follows the render.
AfterClear(rest, t) ==
    IF ClearReported(t.localOk, t.jsonOk)
    THEN /\ CallRender(rest, t)
         /\ UNCHANGED modal
    ELSE /\ modal' = ShowModal("error", t)
         /\ tasks' = rest

\* The submit handler with the form in update mode (main.js:351-367) up to its await.
\* localStorage.setItem at line 363 is outside any try: when it throws the handler ends.
SubmitUpdate(inp) ==
    /\ \E wrote \in BOOLEAN :
         LET u == UpdateLocal(slot, form.editingId, inp, wrote)
             t == [NewTask(FreeName, "update", "write") EXCEPT
                      !.id = form.editingId, !.inp = inp, !.localOk = u.found]
         IN  /\ ~u.found => wrote
             /\ IF u.raised
                THEN UNCHANGED <<slot, tasks, modal, form>>
                ELSE /\ slot' = u.store
                     /\ IF ApiEnabled
                        THEN /\ tasks' = tasks \cup {t}
                             /\ UNCHANGED <<modal, form>>
                        ELSE AfterUpdate(tasks, t)
    /\ UNCHANGED now

\* The submit handler in create mode (main.js:387-410) once getFullLocation has
\* answered: the entry is built, saved locally, and saveEntryToJSON is called.
\* Date.now() is read for the timestamp and again, in saveEntry, for the id.
SubmitCreate(inp) ==
    /\ \E d1 \in {0, 1}, d2 \in {0, 1}, wrote \in BOOLEAN :
         LET ts == now + d1
             idn == ts + d2
             r == SaveEntry(slot, inp, ts, ToString(idn), wrote)
             t == [NewTask(FreeName, "create", "write") EXCEPT
                      !.ts = ts, !.id = ToString(idn), !.inp = inp, !.localOk = r.ok]
         IN  /\ idn <= MaxClock
             /\ now' = idn
             /\ slot' = r.store
             /\ IF ApiEnabled
                THEN /\ tasks' = tasks \cup {t}
                     /\ UNCHANGED modal
                ELSE AfterCreate(tasks, t)
    /\ UNCHANGED form

\* form 'submit' with a valid form (main.js:321-350).
SubmitForm ==
    /\ ready
    /\ ops < MaxOps
    /\ ops' = ops + 1
    /\ \E inp \in FormInputs :
         IF form.updating /\ form.editingId # ""
         THEN SubmitUpdate(inp)
         ELSE SubmitCreate(inp)
    /\ UNCHANGED <<remote, useApi, cards, counter, ready, mIn, mLog>>

\* A delete button of a displayed card, confirmed (main.js:292-301).
DeleteClick ==
    /\ ready
    /\ ops < MaxOps
    /\ ops' = ops + 1
    /\ \E c \in DOMAIN cards, wrote \in BOOLEAN :
         LET r == DeleteEntry(slot, cards[c].id, wrote)
             t == [NewTask(FreeName, "delete", "write") EXCEPT
                      !.id = cards[c].id, !.localOk = r.ok]
         IN  /\ slot' = r.store
             /\ IF ApiEnabled
                THEN /\ tasks' = tasks \cup {t}
                     /\ UNCHANGED modal
                ELSE AfterDelete(tasks, t)
    /\ UNCHANGED <<remote, useApi, now, form, cards, counter, ready, mIn, mLog>>

\* The clear-all button, confirmed (main.js:498-507): the local slot is removed and
\* clearAllEntriesFromJSON starts by listing the remote entries.
ClearClick ==
    /\ ready
    /\ ops < MaxOps
    /\ ops' = ops + 1
    /\ LET r == ClearAllEntries(slot)
           t == [NewTask(FreeName, "clear", "list") EXCEPT !.localOk = r.ok]
       IN  /\ slot' = r.store
           /\ IF ApiEnabled
              THEN /\ tasks' = tasks \cup {t}
                   /\ UNCHANGED modal
              ELSE AfterClear(tasks, t)
    /\ UNCHANGED <<remote, useApi, now, form, cards, counter, ready, mIn, mLog>>

\* The edit button of a displayed card (main.js:627-653).
EditClick ==
    /\ ready
    /\ ops < MaxOps
    /\ \E c \in DOMAIN cards :
         form' = [editingId |-> cards[c].id, updating |-> TRUE]
    /\ UNCHANGED <<slot, remote, useApi, now, tasks, ops, modal, cards, counter,
                   ready, mIn, mLog>>

\* The clear-filters button (main.js:572-575): a render of its own.
RenderClick ==
    /\ ready
    /\ ops < MaxOps
    /\ ops' = ops + 1
    /\ tasks' = tasks \cup {NewTask(FreeName, "render", "fetch")}
    /\ UNCHANGED <<slot, remote, useApi, now, form, modal, cards, counter, ready, mIn, mLog>>

\* The answer to the POST, PUT or DELETE of a handler, and the handler's code after it.
AnswerWrite(t) ==
    /\ t.pc = "write"
    /\ \E out \in Outcomes :
         LET t1 == [t EXCEPT !.jsonOk = WriteResult(out)]
         IN  /\ IF ~Applied(out)
                THEN UNCHANGED <<remote, now>>
                ELSE IF t.op = "create"
                THEN /\ now < MaxClock
                     /\ now' = now + 1
                     /\ remote' = ServerAdd(remote, t.inp, t.ts, ToString(now + 1))
                ELSE IF t.op = "update"
                THEN /\ HasId(remote, t.id)
                     /\ remote' = ServerUpdate(remote, t.id, t.inp)
                     /\ UNCHANGED now
                ELSE /\ remote' = ServerDelete(remote, t.id)
                     /\ UNCHANGED now
             /\ IF t.op = "create" THEN AfterCreate(tasks \ {t}, t1) /\ UNCHANGED form
                ELSE IF t.op = "update" THEN AfterUpdate(tasks \ {t}, t1)
                ELSE AfterDelete(tasks \ {t}, t1) /\ UNCHANGED form
    /\ UNCHANGED <<slot, useApi, ops, cards, counter, ready, mIn, mLog>>

\* The answer to the fetch of clearAllEntriesFromJSON (part_001:291-295), which then
\* issues one DELETE per listed entry; with nothing listed Promise.all([]) resolves
\* at once and the handler goes on.
AnswerList(t) ==
    /\ t.pc = "list"
    /\ \E out \in Outcomes :
         LET f == FetchEntriesFromJSON(out, remote)
         IN  IF f.raised
             THEN /\ tasks' = tasks \ {t}
                  /\ UNCHANGED modal
             ELSE IF f.entries = <<>>
             THEN AfterClear(tasks \ {t}, [t EXCEPT !.jsonOk = ClearAllResult(<<>>)])
             ELSE /\ tasks' = (tasks \ {t}) \cup
                         {[t EXCEPT !.pc = "dels", !.resp = f.entries,
                                    !.dels = DeletePromises(f.entries)]}
                  /\ UNCHANGED modal
    /\ UNCHANGED <<slot, remote, useApi, now, form, ops, cards, counter, ready, mIn, mLog>>

\* The answer to one of the DELETE requests of a clear-all; once Promise.all has
\* settled clearAllEntriesFromJSON returns true (part_001:295-297) and the handler
\* goes on.
AnswerDelete(t) ==
    /\ t.pc = "dels"
    /\ \E i \in DOMAIN t.dels, out \in Outcomes :
         LET t1 == [t EXCEPT !.dels[i].st = IF WriteResult(out) THEN "ok" ELSE "fail"]
         IN  /\ t.dels[i].st = "pending"
             /\ remote' = IF Applied(out) THEN ServerDelete(remote, t.dels[i].id)
                          ELSE remote
             /\ IF AllSettled(t1.dels)
                THEN AfterClear(tasks \ {t}, [t1 EXCEPT !.jsonOk = ClearAllResult(t1.dels)])
                ELSE /\ tasks' = (tasks \ {t}) \cup {t1}
                     /\ UNCHANGED modal
    /\ UNCHANGED <<slot, useApi, now, form, ops, cards, counter, ready, mIn, mLog>>

\* The answer to the fetch of renderJournalEntries (main.js:153).
AnswerFetch(t) ==
    /\ t.pc = "fetch"
    /\ \E out \in Outcomes :
         LET f == FetchEntriesFromJSON(out, remote)
         IN  IF f.raised
             THEN tasks' = tasks \ {t}
             ELSE tasks' = (tasks \ {t}) \cup
                           {[t EXCEPT !.pc = "fetched", !.resp = f.entries]}
    /\ UNCHANGED <<slot, remote, useApi, now, form, ops, modal, cards, counter,
                   ready, mIn, mLog>>

\* renderJournalEntries after its fetch (main.js:155-188), then what the calling
\* handler does after the render: the success modal of delete and clear-all.
ResumeRender(t) ==
    /\ t.pc = "fetched"
    /\ \E wrote \in BOOLEAN :
         LET fallback == UseLocalFallback(t.resp)
             r == SyncWithJSON(t.resp, slot, wrote)
             entries == IF fallback THEN GetAllEntries(slot) ELSE r.ret
         IN  /\ fallback => wrote
             /\ slot' = IF fallback THEN slot ELSE r.store
             /\ counter' = Len(entries)
             /\ cards' = IF Len(entries) = 0 THEN cards ELSE Reverse(entries)
    /\ modal' = IF t.op \in {"delete", "clear"} THEN ShowModal("success", t) ELSE modal
    /\ ready' = TRUE
    /\ tasks' = tasks \ {t}
    /\ UNCHANGED <<remote, useApi, now, form, ops, mIn, mLog>>

Next ==
    \/ SubmitForm
    \/ DeleteClick
    \/ ClearClick
    \/ EditClick
    \/ RenderClick
    \/ \E t \in tasks : AnswerWrite(t)
    \/ \E t \in tasks : AnswerList(t)
    \/ \E t \in tasks : AnswerDelete(t)
    \/ \E t \in tasks : AnswerFetch(t)
    \/ \E t \in tasks : ResumeRender(t)

Spec == Init /\ [][Next]_vars

-----------------------------------------------------------------------------
(* SpecMerge: syncWithJSON applied to drawn inputs, up to twice in a row. *)

\* Entries the merge inputs are drawn from: two versions of one id among them.
MergeEntries ==
    {mkEntry("7", "a", "x", 7), mkEntry("7", "b", "y", 7),
     mkEntry("8", "a", "x", 8), mkEntry("9", "b", "y", 9)}

SeqsUpTo(S, n) ==
    UNION {[1..k -> S] : k \in 0..n}

NoMain ==
    /\ remote = <<>>
    /\ useApi = TRUE
    /\ now = StartClock
    /\ form = CreateMode
    /\ tasks = {}
    /\ ops = 0
    /\ modal = NoModal
    /\ cards = <<>>
    /\ counter = 0
    /\ ready = FALSE

\* Entry ids are unique within the remote store, so within what it returns.
UniqueIds(s) ==
    \A i, j \in DOMAIN s : s[i].id = s[j].id => i = j

MergeInit ==
    /\ NoMain
    /\ mIn \in {s \in SeqsUpTo(MergeEntries, MaxMergeLen) : UniqueIds(s)}
    /\ slot \in {Absent, Corrupt} \cup
                {Stringify(s) : s \in SeqsUpTo(MergeEntries, MaxMergeLen)}
    /\ mLog = <<>>

\* One call syncWithJSON(mIn); the write to the slot succeeds or throws.
MergeCall ==
    /\ Len(mLog) < 2
    /\ \E wrote \in BOOLEAN :
         LET r == SyncWithJSON(mIn, slot, wrote)
         IN  /\ slot' = r.store
             /\ mLog' = Append(mLog, [before |-> slot, ret |-> r.ret,
                                      after |-> r.store, wrote |-> wrote])
    /\ UNCHANGED <<mainVars, mIn>>

MergeNext == MergeCall

SpecMerge == MergeInit /\ [][MergeNext]_vars

-----------------------------------------------------------------------------
(* C1 - C3: syncWithJSON. *)

\* The merged sequence as the specification words it: the remote entries, then the
\* local entries whose id no remote entry has.
MergedSequence(remoteEntries, localEntries) ==
    remoteEntries \o
    SelectSeq(localEntries, LAMBDA e : e.id \notin IdsOf(remoteEntries))

MergeIsExact(r) ==
    /\ r.ret = MergedSequence(mIn, GetAllEntries(r.before))
    /\ r.after = Stringify(r.ret)
    /\ IdsOf(GetAllEntries(r.after)) = IdsOf(mIn) \cup IdsOf(GetAllEntries(r.before))

\* C1 as claimed: every merge returns and writes the merged sequence, and the ids of
\* the local store afterwards are the union of the remote ids and the local ids before.
C1_MergeAlwaysExact ==
    \A k \in DOMAIN mLog : MergeIsExact(mLog[k])

\* C1 amended: a merge whose write to the local slot succeeds returns and writes the
\* merged sequence (ids afterwards = remote ids union local ids before); a merge whose
\* write throws returns the remote entries alone and leaves the slot as it was.
C1_MergeExactWhenWritten ==
    \A k \in DOMAIN mLog :
        IF mLog[k].wrote
        THEN MergeIsExact(mLog[k])
        ELSE mLog[k].ret = mIn /\ mLog[k].after = mLog[k].before

\* A written merge that kept one local entry and dropped another.
C1_Witness ==
    \E k \in DOMAIN mLog :
        LET loc == GetAllEntries(mLog[k].before)
        IN  /\ mLog[k].wrote
            /\ mIn # <<>>
            /\ \E i \in DOMAIN loc : loc[i].id \in IdsOf(mIn)
            /\ \E i \in DOMAIN loc : loc[i].id \notin IdsOf(mIn)
            /\ Len(mLog[k].ret) = Len(mIn) + 1

InSeq(e, s) ==
    \E i \in DOMAIN s : s[i] = e

\* The (remote, local) pairs of one id whose contents differ.
Conflicts(r) ==
    LET loc == GetAllEntries(r.before)
    IN  {<<i, j>> \in (DOMAIN mIn) \X (DOMAIN loc) :
            mIn[i].id = loc[j].id /\ mIn[i] # loc[j]}

RemoteWinsIn(r, s) ==
    \A p \in Conflicts(r) :
        /\ InSeq(mIn[p[1]], s)
        /\ ~InSeq(GetAllEntries(r.before)[p[2]], s)

\* C2 as claimed: for an id in both with different content, the merged result and
\* the local store afterwards hold the remote version and not the local one.
C2_RemoteWinsEverywhere ==
    \A k \in DOMAIN mLog :
        /\ RemoteWinsIn(mLog[k], mLog[k].ret)
        /\ RemoteWinsIn(mLog[k], GetAllEntries(mLog[k].after))

\* C2 amended: the merged result always holds the remote version and not the local
\* one; the local store afterwards does so when the write to the slot succeeded.
C2_RemoteWinsWhenWritten ==
    \A k \in DOMAIN mLog :
        /\ RemoteWinsIn(mLog[k], mLog[k].ret)
        /\ mLog[k].wrote => RemoteWinsIn(mLog[k], GetAllEntries(mLog[k].after))

\* A written merge over an id that both sides hold with different content.
C2_Witness ==
    \E k \in DOMAIN mLog : mLog[k].wrote /\ Conflicts(mLog[k]) # {}

\* Merging again, with the first result as the remote input and the original local
\* collection, whether or not the second write succeeds.
RemergeOfResult(r) ==
    {SyncWithJSON(r.ret, r.before, w).ret : w \in BOOLEAN}

-----------------------------------------------------------------------------
(* C4 - C10: the handlers. *)

InUpdateMode ==
    form.updating /\ form.editingId # ""

TasksOf(op) ==
    {t \in tasks : t.op = op}

\* The modal a create showed is the success modal exactly when one write succeeded.
CreateReportMatches ==
    modal.op = "create" =>
        (modal.type = "success" <=> (modal.localOk \/ modal.jsonOk))

\* A submit in create mode writes locally whatever happens remotely later, and with
\* the API enabled leaves the POST pending whether or not the local write succeeded.
CreateWritesBoth ==
    (SubmitForm /\ ~InUpdateMode) =>
        /\ \E wrote \in BOOLEAN, inp \in FormInputs, ts \in now..now', id \in now..now' :
              slot' = SaveEntry(slot, inp, ts, ToString(id), wrote).store
        /\ useApi => \E t \in tasks' \ tasks : t.op = "create" /\ t.pc = "write"

\* The answer to a create's POST, failed or not, leaves the local slot alone.
CreateAnswerKeepsLocal ==
    \A t \in TasksOf("create") : AnswerWrite(t) => slot' = slot

\* C4: on create the local write is performed whatever the remote outcome, the
\* remote write is attempted whatever the local outcome, a failed remote write does
\* not undo the local entry, and the create is reported successful exactly when the
\* local write or the remote write succeeded.
C4_CreateIndependentWrites ==
    /\ []CreateReportMatches
    /\ [][CreateWritesBoth]_vars
    /\ [][CreateAnswerKeepsLocal]_vars

\* A create whose remote write failed was reported successful and its entry is
\* still in the local store.
C4_Witness ==
    /\ useApi
    /\ modal.op = "create" /\ modal.type = "success"
    /\ modal.localOk /\ ~modal.jsonOk
    /\ HasId(GetAllEntries(slot), modal.id)

\* C5 as claimed: an update is reported successful exactly when the local update
\* was applied or the remote update succeeded.
C5_UpdateReportMatches ==
    modal.op = "update" =>
        (modal.type = "success" <=> (modal.localOk \/ modal.jsonOk))

\* C6: after a delete whose local removal and remote deletion both succeeded, the
\* fetch that follows returns no entry with the deleted id.
C6_DeletedNotFetched ==
    \A t \in TasksOf("delete") :
        (t.pc = "fetched" /\ t.localOk /\ t.jsonOk) => ~HasId(t.resp, t.id)

\* A delete that succeeded on both sides got a non-empty answer to its fetch.
C6_Witness ==
    \E t \in TasksOf("delete") :
        /\ t.pc = "fetched" /\ t.localOk /\ t.jsonOk
        /\ t.resp # <<>>
        /\ HasId(cards, t.id)

\* The clear-all handler removes the local slot before anything remote.
ClearEmptiesLocal ==
    ClearClick => slot' = Absent

\* The remote half of clear-all does not touch the local slot.
ClearRemoteKeepsLocal ==
    \A t \in TasksOf("clear") : (AnswerList(t) \/ AnswerDelete(t)) => slot' = slot

\* One DELETE per listed entry, and the handler goes on only when each was answered.
ClearAttemptsAll ==
    \A t \in TasksOf("clear") :
        /\ t.pc \in {"dels", "fetch"} =>
              /\ Len(t.dels) = Len(t.resp)
              /\ \A i \in DOMAIN t.resp : t.dels[i].id = t.resp[i].id
        /\ t.pc \in {"fetch", "fetched"} =>
              \A i \in DOMAIN t.dels : t.dels[i].st \in {"ok", "fail"}

C8_LocalOnlyCreate ==
    ~useApi =>
        /\ modal.op = "create" =>
              /\ ~modal.jsonOk
              /\ modal.type = "success" <=> modal.localOk
        /\ \A t \in TasksOf("create") : t.pc # "write" /\ ~t.jsonOk

\* With the API disabled a create was reported successful.
C8_Witness ==
    /\ ~useApi
    /\ modal.op = "create" /\ modal.type = "success" /\ modal.localOk
    /\ HasId(GetAllEntries(slot), modal.id)

\* A request is in flight for handler t.
AwaitsRequest(t) ==
    t.pc \in {"write", "list", "dels", "fetch"}

\* C9 as claimed: with the API disabled no request is issued, a fetch returns the
\* empty sequence, and no remote half reports success.
C9_DisabledIssuesNothing ==
    ~useApi =>
        /\ \A t \in tasks : ~AwaitsRequest(t) /\ t.resp = <<>> /\ ~t.jsonOk
        /\ ~modal.jsonOk

\* C9 amended: with the API disabled the remote halves of create, update, delete and
\* clear-all issue no request and return false; fetchEntriesFromJSON still issues a
\* request, for the static JSON file, and returns the entries it decodes.
C9_DisabledWritesIssueNothing ==
    ~useApi =>
        /\ \A t \in tasks : t.pc \in {"fetch", "fetched"} /\ ~t.jsonOk /\ t.dels = <<>>
        /\ ~modal.jsonOk

\* With the API disabled a render got entries from the static file.
C9_Witness ==
    /\ ~useApi
    /\ ops > 0
    /\ \E t \in tasks : t.op # "render" /\ t.pc = "fetched" /\ t.resp # <<>>

\* Whatever way the exchange ends, fetchEntriesFromJSON returns: the body when it
\* decoded, the empty sequence otherwise.
FetchDegrades ==
    \A out \in Outcomes :
        LET f == FetchEntriesFromJSON(out, remote)
        IN  /\ ~f.raised
            /\ out # "ok" => f.entries = <<>>

\* The handler that fetched is still there afterwards, and the slot is as it was.
FetchKeepsLocal ==
    \A t \in tasks :
        (AnswerFetch(t) \/ AnswerList(t)) =>
            /\ slot' = slot
            /\ \E t2 \in tasks' : t2.n = t.n /\ t2.op = t.op

\* C10: fetchEntriesFromJSON never raises, every failure yields the empty sequence,
\* and it leaves the local store unchanged whether it fails or not.
C10_FetchNeverRaises ==
    /\ []FetchDegrades
    /\ [][FetchKeepsLocal]_vars

\* A fetch failed against a non-empty remote and the handler holds the empty sequence.
C10_Witness ==
    \E t \in tasks :
        /\ t.pc = "fetched"
        /\ t.resp = <<>>
        /\ remote # <<>>
        /\ slot # Absent

-----------------------------------------------------------------------------
(* SpecLocal: the local operations, each called once on a drawn local         *)
(* collection: the read, create, delete, merge, and the local half of update. *)

\* The ids an operation is called with: "5" is the id of no entry.
LocalIds == {"5", "7", "8", "9"}

LocalInit ==
    /\ NoMain
    /\ mIn = <<>>
    /\ slot \in {Absent, Corrupt} \cup
                {Stringify(s) : s \in SeqsUpTo(MergeEntries, MaxLocalLen)}
    /\ mLog = <<>>

\* One call StorageManager.deleteEntry(id).
LocalDelete ==
    /\ mLog = <<>>
    /\ \E id \in LocalIds, wrote \in BOOLEAN :
         LET r == DeleteEntry(slot, id, wrote)
         IN  /\ slot' = r.store
             /\ mLog' = <<[op |-> "delete", id |-> id, inp |-> NoInput,
                           before |-> slot, after |-> r.store, ok |-> r.ok,
                           raised |-> FALSE, wrote |-> wrote,
                           arg |-> <<>>, ret |-> <<>>]>>
    /\ UNCHANGED <<mainVars, mIn>>

\* One run of the local half of the update branch (main.js:359-364).
LocalUpdate ==
    /\ mLog = <<>>
    /\ \E id \in LocalIds, inp \in FormInputs, wrote \in BOOLEAN :
         LET u == UpdateLocal(slot, id, inp, wrote)
         IN  /\ slot' = u.store
             /\ mLog' = <<[op |-> "update", id |-> id, inp |-> inp,
                           before |-> slot, after |-> u.store, ok |-> u.found,
                           raised |-> u.raised, wrote |-> wrote,
                           arg |-> <<>>, ret |-> <<>>]>>
    /\ UNCHANGED <<mainVars, mIn>>

\* One call StorageManager.getAllEntries().
LocalRead ==
    /\ mLog = <<>>
    /\ mLog' = <<[op |-> "read", id |-> "", inp |-> NoInput,
                  before |-> slot, after |-> slot, ok |-> TRUE,
                  raised |-> GetAllEntriesRaises(slot), wrote |-> FALSE,
                  arg |-> <<>>, ret |-> GetAllEntries(slot)]>>
    /\ UNCHANGED <<slot, mainVars, mIn>>

\* One call StorageManager.saveEntry(entry) at the clock value of the page load;
\* its try block holds the whole body, so it returns false where anything throws.
LocalCreate ==
    /\ mLog = <<>>
    /\ \E inp \in FormInputs, wrote \in BOOLEAN :
         LET r == SaveEntry(slot, inp, now, ToString(now), wrote)
         IN  /\ slot' = r.store
             /\ mLog' = <<[op |-> "create", id |-> ToString(now), inp |-> inp,
                           before |-> slot, after |-> r.store, ok |-> r.ok,
                           raised |-> FALSE, wrote |-> wrote,
                           arg |-> <<>>, ret |-> <<>>]>>
    /\ UNCHANGED <<mainVars, mIn>>

\* One call StorageManager.syncWithJSON(jsonEntries); its try block holds the whole
\* body as well.
LocalMerge ==
    /\ mLog = <<>>
    /\ \E json \in SeqsUpTo(MergeEntries, 1), wrote \in BOOLEAN :
         LET r == SyncWithJSON(json, slot, wrote)
         IN  /\ slot' = r.store
             /\ mLog' = <<[op |-> "merge", id |-> "", inp |-> NoInput,
                           before |-> slot, after |-> r.store, ok |-> TRUE,
                           raised |-> FALSE, wrote |-> wrote,
                           arg |-> json, ret |-> r.ret]>>
    /\ UNCHANGED <<mainVars, mIn>>

LocalNext ==
    \/ LocalDelete
    \/ LocalUpdate
    \/ LocalRead
    \/ LocalCreate
    \/ LocalMerge

SpecLocal == LocalInit /\ [][LocalNext]_vars

CallsOf(op) ==
    {k \in DOMAIN mLog : mLog[k].op = op}

\* The positions of s whose entry has another id than id, in increasing order.
RestPositions(s, id) ==
    {i \in DOMAIN s : s[i].id # id}

\* a is b without its entries of that id, the others in their order of b: a
\* strictly increasing map from the positions of a onto the kept positions of b.
IsRestOf(a, b, id) ==
    /\ Len(a) = Cardinality(RestPositions(b, id))
    /\ \E f \in [DOMAIN a -> RestPositions(b, id)] :
          /\ \A i, j \in DOMAIN a : i < j => f[i] < f[j]
          /\ \A i \in DOMAIN a : a[i] = b[f[i]]

DeleteIsExact(r) ==
    LET b == GetAllEntries(r.before)
        a == GetAllEntries(r.after)
    IN  /\ r.ok
        /\ ~HasId(a, r.id)
        /\ IsRestOf(a, b, r.id)
        /\ ~HasId(b, r.id) => a = b

\* C12 as claimed: every local delete removes every entry with the id, leaves the
\* other entries and their order as they were, and returns success, also when no
\* entry has the id.
C12_DeleteAlwaysExact ==
    \A k \in CallsOf("delete") : DeleteIsExact(mLog[k])

\* C12 amended: so it is when the write to the local slot succeeds; when that write
\* throws, delete returns failure and leaves the slot as it was.
C12_DeleteExactWhenWritten ==
    \A k \in CallsOf("delete") :
        IF mLog[k].wrote
        THEN DeleteIsExact(mLog[k])
        ELSE ~mLog[k].ok /\ mLog[k].after = mLog[k].before

\* A written delete removed two entries of one id from around an entry it kept.
C12_Witness ==
    \E k \in CallsOf("delete") :
        LET b == GetAllEntries(mLog[k].before)
        IN  /\ mLog[k].wrote
            /\ Len(b) = 3
            /\ b[1].id = mLog[k].id /\ b[2].id # mLog[k].id /\ b[3].id = mLog[k].id
            /\ GetAllEntries(mLog[k].after) = <<b[2]>>

\* Everything but title and content is as before at every position, and the entries
\* of other ids are as before altogether.
UpdateFrame(r) ==
    LET b == GetAllEntries(r.before)
        a == GetAllEntries(r.after)
    IN  /\ Len(a) = Len(b)
        /\ \A i \in DOMAIN b :
              /\ a[i].id = b[i].id
              /\ a[i].date = b[i].date
              /\ a[i].timestamp = b[i].timestamp
              /\ a[i].location = b[i].location
              /\ b[i].id # r.id => a[i] = b[i]

\* C13: the local half of an update changes only the title and content of the entry
\* with the id (the new values are those given, when the write succeeds); ids, dates,
\* timestamps, locations, the other entries and the order are unchanged; when no
\* entry has the id the slot is unchanged and no error is raised.
C13_UpdateOnlyTitleContent ==
    \A k \in CallsOf("update") :
        LET r == mLog[k]
            b == GetAllEntries(r.before)
            a == GetAllEntries(r.after)
        IN  /\ UpdateFrame(r)
            /\ ~HasId(b, r.id) => (r.after = r.before /\ ~r.raised)
            /\ (HasId(b, r.id) /\ r.wrote) =>
                  \E i \in DOMAIN a :
                      /\ a[i].id = r.id
                      /\ a[i].title = r.inp.title
                      /\ a[i].content = r.inp.content

\* A written update changed the title of the second of three entries.
C13_Witness ==
    \E k \in CallsOf("update") :
        LET b == GetAllEntries(mLog[k].before)
            a == GetAllEntries(mLog[k].after)
        IN  /\ mLog[k].wrote
            /\ Len(b) = 3
            /\ b[2].id = mLog[k].id /\ b[1].id # mLog[k].id /\ b[3].id # mLog[k].id
            /\ a[2].title # b[2].title

-----------------------------------------------------------------------------
(* SpecRemote: each remote half of StorageManager, clientSideSearch and the    *)
(* filter handler applyFilters, called once on a drawn remote content, local   *)
(* slot, arguments and outcomes of the HTTP exchanges it makes.                *)

AlphaDay ==
    [id |-> "1", title |-> <<"A", "l", "p", "h", "a", " ", "d", "a", "y">>,
     content |-> <<"x">>, date |-> "2024-01-01", timestamp |-> 1,
     location |-> Location]

Beta ==
    [id |-> "2", title |-> <<"b", "e", "t", "a">>,
     content |-> <<"n", "o", " ", "m", "a", "t", "c", "h">>,
     date |-> "2024-02-01", timestamp |-> 2, location |-> Location]

Gamma ==
    [id |-> "3", title |-> <<>>, content |-> <<"A", "L", "P", "H", "A">>,
     date |-> "2024-01-15", timestamp |-> 3, location |-> Location]

SearchEntries == {AlphaDay, Beta, Gamma}

Keywords ==
    {<<>>, <<"a", "l", "p", "h", "a">>, <<"B", "e">>, <<"z">>}

DateBounds == {"", "2024-01-15", "2024-02-01", "2024-02-15"}

NoFilter == [keyword |-> <<>>, dateFrom |-> "", dateTo |-> ""]

\* The values of the filter form: keyword (trimmed), date from, date to.
Filters ==
    [keyword : Keywords, dateFrom : DateBounds, dateTo : DateBounds]

\* What the user typed into the entry form, as characters.
TypedInput == [title |-> <<"B", "e">>, content |-> <<"x">>]

RemoteInit ==
    /\ useApi \in BOOLEAN
    /\ remote \in {s \in SeqsUpTo(SearchEntries, MaxRemoteLen) : UniqueIds(s)}
    /\ slot \in {Absent, Corrupt, Stringify(<<Gamma>>), Stringify(<<Beta, AlphaDay>>)}
    /\ now = StartClock
    /\ form = CreateMode
    /\ tasks = {}
    /\ ops = 0
    /\ modal = NoModal
    /\ cards = <<>>
    /\ counter = 0
    /\ ready = TRUE
    /\ mIn = <<>>
    /\ mLog = <<>>

\* The exchange ended in a network error or a non-success status.
Failed(out) ==
    out \in {"neterr", "status"}

\* The record of a call: what it was given and what it returned.
CallRecord(op) ==
    [op |-> op, failed |-> FALSE, raised |-> FALSE, ok |-> FALSE, entries |-> <<>>,
     given |-> <<>>, local |-> <<>>, fetched |-> <<>>, fetchOk |-> FALSE,
     searched |-> FALSE, flt |-> NoFilter, dels |-> <<>>]

\* StorageManager.fetchEntriesFromJSON().
CallFetch ==
    /\ mLog = <<>>
    /\ \E out \in Outcomes :
         LET f == FetchEntriesFromJSON(out, remote)
         IN  mLog' = <<[CallRecord("fetchAll") EXCEPT
                           !.failed = Failed(out), !.raised = f.raised,
                           !.entries = f.entries, !.fetchOk = (out = "ok")]>>
    /\ UNCHANGED <<slot, mainVars, mIn>>

\* StorageManager.saveEntryToJSON(entry).
CallSave ==
    /\ mLog = <<>>
    /\ \E out \in Outcomes :
         LET r == RemoteWrite(ApiEnabled, out)
         IN  /\ remote' = IF ApiEnabled /\ Applied(out)
                          THEN ServerAdd(remote, TypedInput, now, ToString(now + 1))
                          ELSE remote
             /\ mLog' = <<[CallRecord("create") EXCEPT
                              !.failed = ApiEnabled /\ Failed(out),
                              !.raised = r.raised, !.ok = r.ok]>>
    /\ UNCHANGED <<slot, useApi, now, form, tasks, ops, modal, cards, counter,
                   ready, mIn>>

\* StorageManager.updateEntryInJSON(entryId, updates).
CallUpdate ==
    /\ mLog = <<>>
    /\ \E out \in Outcomes, id \in IdsOf(remote) :
         LET r == RemoteWrite(ApiEnabled, out)
         IN  /\ remote' = IF ApiEnabled /\ Applied(out)
                          THEN ServerUpdate(remote, id, TypedInput)
                          ELSE remote
             /\ mLog' = <<[CallRecord("update") EXCEPT
                              !.failed = ApiEnabled /\ Failed(out),
                              !.raised = r.raised, !.ok = r.ok]>>
    /\ UNCHANGED <<slot, useApi, now, form, tasks, ops, modal, cards, counter,
                   ready, mIn>>

\* StorageManager.deleteEntryFromJSON(entryId).
CallDelete ==
    /\ mLog = <<>>
    /\ \E out \in Outcomes, id \in IdsOf(remote) \cup {"9"} :
         LET r == RemoteWrite(ApiEnabled, out)
         IN  /\ remote' = IF ApiEnabled /\ Applied(out)
                          THEN ServerDelete(remote, id)
                          ELSE remote
             /\ mLog' = <<[CallRecord("delete") EXCEPT
                              !.failed = ApiEnabled /\ Failed(out),
                              !.raised = r.raised, !.ok = r.ok]>>
    /\ UNCHANGED <<slot, useApi, now, form, tasks, ops, modal, cards, counter,
                   ready, mIn>>

\* StorageManager.clearAllEntriesFromJSON(): the listing, one deletion per listed
\* entry, the join.
CallClearAll ==
    /\ mLog = <<>>
    /\ IF ~ApiEnabled
       THEN /\ mLog' = <<CallRecord("clearAll")>>
            /\ UNCHANGED remote
       ELSE \E listOut \in Outcomes :
              LET f == FetchEntriesFromJSON(listOut, remote)
              IN  \E delOuts \in [DOMAIN f.entries -> Outcomes] :
                    LET dels == [i \in DOMAIN f.entries |->
                                    [id |-> f.entries[i].id,
                                     st |-> IF WriteResult(delOuts[i])
                                            THEN "ok" ELSE "fail"]]
                        gone == {f.entries[i].id :
                                    i \in {j \in DOMAIN f.entries : Applied(delOuts[j])}}
                    IN  /\ remote' = SelectSeq(remote, LAMBDA e : e.id \notin gone)
                        /\ mLog' = <<[CallRecord("clearAll") EXCEPT
                                         !.failed = \/ Failed(listOut)
                                                    \/ \E i \in DOMAIN delOuts :
                                                          Failed(delOuts[i]),
                                         !.raised = f.raised,
                                         !.ok = ClearAllResult(dels),
                                         !.fetched = f.entries,
                                         !.fetchOk = (listOut = "ok"),
                                         !.dels = dels]>>
    /\ UNCHANGED <<slot, useApi, now, form, tasks, ops, modal, cards, counter,
                   ready, mIn>>

\* StorageManager.searchEntriesInJSON(query, dateFrom, dateTo).
CallSearch ==
    /\ mLog = <<>>
    /\ \E flt \in Filters, out \in Outcomes, fetchOut \in Outcomes :
         LET served == ServerSearch(remote, flt.keyword, flt.dateFrom, flt.dateTo)
             r == SearchEntriesInJSON(ApiEnabled, out, served, fetchOut, remote,
                                      flt.keyword, flt.dateFrom, flt.dateTo)
         IN  mLog' = <<[CallRecord("search") EXCEPT
                           !.failed = ApiEnabled /\ Failed(out),
                           !.raised = r.raised, !.entries = r.entries,
                           !.searched = ApiEnabled,
                           !.fetched = r.fetched,
                           !.fetchOk = r.fellBack /\ fetchOut = "ok",
                           !.flt = flt]>>
    /\ UNCHANGED <<slot, mainVars, mIn>>

\* StorageManager.clientSideSearch(entries, query, dateFrom, dateTo).
CallClientSideSearch ==
    /\ mLog = <<>>
    /\ \E given \in {remote, GetAllEntries(slot)}, flt \in Filters :
         mLog' = <<[CallRecord("clientSideSearch") EXCEPT
                       !.given = given, !.flt = flt,
                       !.entries = ClientSideSearch(given, flt.keyword,
                                                    flt.dateFrom, flt.dateTo)]>>
    /\ UNCHANGED <<slot, mainVars, mIn>>

\* The filter form submitted (main.js:582-621): the remote search when the API is
\* enabled and a filter is given, else a fetch, the local collection in its place
\* when it is empty, and the client-side filter; then the cards are replaced.
ApplyFilters ==
    /\ mLog = <<>>
    /\ \E flt \in Filters, out \in Outcomes, fetchOut \in Outcomes :
         LET searched == useApi /\ (flt.keyword # <<>> \/ flt.dateFrom # ""
                                    \/ flt.dateTo # "")
             served == ServerSearch(remote, flt.keyword, flt.dateFrom, flt.dateTo)
             r == SearchEntriesInJSON(useApi, out, served, fetchOut, remote,
                                      flt.keyword, flt.dateFrom, flt.dateTo)
             f == FetchEntriesFromJSON(fetchOut, remote)
             entries == IF Len(f.entries) = 0 THEN GetAllEntries(slot) ELSE f.entries
             filteredEntries ==
                 IF searched THEN r.entries
                 ELSE ClientSideSearch(entries, flt.keyword, flt.dateFrom, flt.dateTo)
         IN  /\ cards' = Reverse(filteredEntries)
             /\ counter' = Len(filteredEntries)
             /\ modal' = IF Len(filteredEntries) = 0
                         THEN [NoModal EXCEPT !.type = "info", !.op = "filter"]
                         ELSE modal
             /\ mLog' = <<[CallRecord("filter") EXCEPT
                              !.failed = searched /\ out # "ok",
                              !.entries = filteredEntries,
                              !.searched = searched,
                              !.given = remote,
                              !.local = GetAllEntries(slot),
                              !.fetchOk = (~searched \/ r.fellBack) /\ fetchOut = "ok",
                              !.flt = flt]>>
    /\ UNCHANGED <<slot, remote, useApi, now, form, tasks, ops, ready, mIn>>

RemoteNext ==
    \/ CallFetch
    \/ CallSave
    \/ CallUpdate
    \/ CallDelete
    \/ CallClearAll
    \/ CallSearch
    \/ CallClientSideSearch
    \/ ApplyFilters

SpecRemote == RemoteInit /\ [][RemoteNext]_vars

-----------------------------------------------------------------------------
(* C11, C15, C16: failure signals and search. *)

\* C11 as claimed: an operation one of whose exchanges failed raises nothing and
\* reports the failure signal, false for a write and the empty sequence for a read.
C11_FailureSignalled ==
    \A k \in DOMAIN mLog :
        LET r == mLog[k]
        IN  r.failed =>
              /\ ~r.raised
              /\ r.op \in {"create", "update", "delete", "clearAll"} => ~r.ok
              /\ r.op \in {"fetchAll", "search"} => r.entries = <<>>

\* text contains kw at some offset, letters compared without regard to case.
ContainsIgnoringCase(text, kw) ==
    \E k \in 0..(Len(text) - Len(kw)) :
        \A i \in 1..Len(kw) : LowerOf(text[k + i]) = LowerOf(kw[i])

\* The entry satisfies every predicate that is given.
SatisfiesAll(e, flt) ==
    /\ flt.keyword # <<>> =>
          \/ ContainsIgnoringCase(e.title, flt.keyword)
          \/ ContainsIgnoringCase(e.content, flt.keyword)
    /\ flt.dateFrom # "" => DateRank(e.date) >= DateRank(flt.dateFrom)
    /\ flt.dateTo # "" => DateRank(e.date) <= DateRank(flt.dateTo)

\* The entries of s, in their order, that satisfy every predicate given.
FilterOf(s, flt) ==
    SelectSeq(s, LAMBDA e : SatisfiesAll(e, flt))

\* C11 amended: no remote operation raises; after a failed exchange create, update
\* and delete return false and fetchAll returns the empty sequence, while clearAll
\* returns true all the same and search returns the client-side filter of what its
\* fallback fetch returned.
C11_FailureDegrades ==
    \A k \in DOMAIN mLog :
        LET r == mLog[k]
        IN  /\ ~r.raised
            /\ r.failed =>
                  /\ r.op \in {"create", "update", "delete"} => ~r.ok
                  /\ r.op = "fetchAll" => r.entries = <<>>
                  /\ r.op = "clearAll" => r.ok
                  /\ r.op = "search" => r.entries = FilterOf(r.fetched, r.flt)

\* A clear-all of two listed entries, of which one deletion failed, returned true.
C11_Witness ==
    \E k \in CallsOf("clearAll") :
        /\ mLog[k].failed /\ mLog[k].ok
        /\ Len(mLog[k].dels) = 2
        /\ mLog[k].dels[1].st = "fail" /\ mLog[k].dels[2].st = "ok"

\* C15 as claimed: with the API enabled, a filter whose search request failed shows
\* the client-side filter of the fetched entries when the fetch succeeded, and of the
\* local store's entries otherwise.
C15_SearchFallsBackToLocal ==
    \A k \in CallsOf("filter") :
        LET r == mLog[k]
        IN  (useApi /\ r.searched /\ r.failed) =>
                r.entries = FilterOf(IF r.fetchOk THEN r.given ELSE r.local, r.flt)

\* C16: clientSideSearch returns exactly the entries, in input order, that satisfy
\* all the predicates given (keyword in title or content ignoring case, date >=
\* dateFrom, date <= dateTo, bounds inclusive), and its input when none is given.
C16_ClientSideSearchExact ==
    \A k \in CallsOf("clientSideSearch") :
        LET r == mLog[k]
        IN  /\ r.entries = FilterOf(r.given, r.flt)
            /\ r.flt = NoFilter => r.entries = r.given

\* clientSideSearch with dateFrom 2024-01-15 and dateTo 2024-02-15 over the entries
\* "Alpha day" and "beta" returned the second alone.
C16_Witness ==
    \E k \in CallsOf("clientSideSearch") :
        /\ mLog[k].given = <<AlphaDay, Beta>>
        /\ mLog[k].flt = [keyword |-> <<>>, dateFrom |-> "2024-01-15",
                          dateTo |-> "2024-02-15"]
        /\ mLog[k].entries = <<Beta>>

-----------------------------------------------------------------------------
(* C14, C17 - C20: the handlers, continued. *)

\* C14 as claimed: when a create is the only handler that ran and both its writes
\* succeeded, the entries its render then fetches contain the entry with the fields
\* assigned at creation: id, title, content, date, timestamp, location.
C14_CreatedIsFetched ==
    \A t \in TasksOf("create") :
        (ops = 1 /\ t.pc = "fetched" /\ t.localOk /\ t.jsonOk /\ t.resp # <<>>) =>
            InSeq(mkEntry(t.id, t.inp.title, t.inp.content, t.ts), t.resp)

\* C17: with the API enabled the remote half of clear-all returns true once it has
\* run, whatever the deletions returned, and the clear-all is reported successful.
C17_ClearRemoteAlwaysTrue ==
    useApi =>
        /\ \A t \in TasksOf("clear") : t.pc \in {"fetch", "fetched"} => t.jsonOk
        /\ modal.op = "clear" => (modal.jsonOk /\ modal.type = "success")

\* The remote half of a clear-all returned true although each deletion had failed.
C17_Witness ==
    /\ useApi
    /\ \E t \in TasksOf("clear") :
          /\ t.pc = "fetch"
          /\ t.jsonOk
          /\ Len(t.dels) = 2
          /\ \A i \in DOMAIN t.dels : t.dels[i].st = "fail"

\* When the listing has returned, one request per listed entry is in flight.
ClearIssuesAllFirst ==
    \A t \in TasksOf("clear") :
        AnswerList(t) =>
            \A t2 \in tasks' :
                (t2.n = t.n /\ t2.pc = "dels") =>
                    /\ Len(t2.dels) = Len(t2.resp)
                    /\ \A i \in DOMAIN t2.dels : t2.dels[i].st = "pending"

\* An answer settles one deletion that was in flight; the handler stays at the join
\* while a deletion is in flight and leaves it with the last answer.
ClearJoinsAll ==
    \A t \in TasksOf("clear") :
        AnswerDelete(t) =>
            \E t2 \in tasks' :
                /\ t2.n = t.n
                /\ \E i \in DOMAIN t.dels :
                      /\ t.dels[i].st = "pending"
                      /\ t2.dels[i].st \in {"ok", "fail"}
                      /\ \A j \in DOMAIN t.dels \ {i} : t2.dels[j] = t.dels[j]
                /\ t2.pc = "dels" <=> \E i \in DOMAIN t2.dels : t2.dels[i].st = "pending"
                /\ t2.pc = "dels" => ~t2.jsonOk

\* At the join no result has been yielded; after it every deletion has completed.
ClearYieldsAfterAll ==
    \A t \in TasksOf("clear") :
        /\ t.pc \in {"list", "dels"} => ~t.jsonOk
        /\ t.pc = "dels" => \E i \in DOMAIN t.dels : t.dels[i].st = "pending"
        /\ t.jsonOk => \A i \in DOMAIN t.dels : t.dels[i].st \in {"ok", "fail"}

\* C18: every delete request of a clear-all is issued before any is awaited, they
\* are answered one at a time in whatever order, and clear-all yields its result
\* only after every one has completed, succeeded or failed.
C18_ClearDeletesConcurrent ==
    /\ []ClearYieldsAfterAll
    /\ [][ClearIssuesAllFirst]_vars
    /\ [][ClearJoinsAll]_vars

\* The second deletion of a clear-all has completed while the first is in flight.
C18_Witness ==
    \E t \in TasksOf("clear") :
        /\ t.pc = "dels"
        /\ Len(t.dels) = 2
        /\ t.dels[1].st = "pending"
        /\ t.dels[2].st = "fail"

\* The local collection after the step, given the one at the moment of the step:
\* a new entry in front, one entry's title and content replaced, the entries of one
\* id removed, nothing, or the merge of a fetched sequence with it.
FreshLocalWrite ==
    LET b == GetAllEntries(slot)
        a == GetAllEntries(slot')
    IN  \/ slot' = slot
        \/ slot' = Absent
        \/ Len(a) = Len(b) + 1 /\ SubSeq(a, 2, Len(a)) = b
        \/ /\ Len(a) = Len(b)
           /\ \E k \in DOMAIN b :
                 /\ \A i \in DOMAIN b : i # k => a[i] = b[i]
                 /\ a[k] = [b[k] EXCEPT !.title = a[k].title, !.content = a[k].content]
        \/ \E c \in DOMAIN cards : IsRestOf(a, b, cards[c].id)
        \/ \E t \in tasks : t.pc = "fetched" /\ a = MergedSequence(t.resp, b)

\* A render's merge keeps every id the local store holds when the merge is written.
RenderKeepsLocalWrites ==
    \A t \in tasks :
        ResumeRender(t) => IdsOf(GetAllEntries(slot)) \subseteq IdsOf(GetAllEntries(slot'))

C20_NewestFirst ==
    LET s == GetAllEntries(slot)
    IN  \A i, j \in DOMAIN s : i < j => s[i].timestamp >= s[j].timestamp

-----------------------------------------------------------------------------
(* C21 - C30: identifiers, renders and the form. *)

\* C21 as claimed: without merge (the API disabled and the static file empty, every
\* fetch returns the empty sequence) no two entries of the local store have one id,
\* whatever creates, updates, deletes and clears have run.
C21_LocalIdsUnique ==
    (~useApi /\ remote = <<>>) => UniqueIds(GetAllEntries(slot))

\* C23 as claimed: the entry a create wrote to the local store has the decimal
\* string of its own timestamp field as its id.
C23_IdIsTimestampString ==
    \A t \in TasksOf("create") :
        t.localOk => t.id = ToString(t.ts)

EditKeptLocallyOnly ==
    modal.op = "update" /\ modal.type = "error" /\ modal.localOk /\ ~modal.jsonOk

\* s holds the id, and every entry of s with the id is one of resp.
HoldsCopyOf(s, id, resp) ==
    /\ HasId(s, id)
    /\ \A i \in DOMAIN s : s[i].id = id => InSeq(s[i], resp)

\* C24 as claimed: after such an update, a render whose fetch returned an entry of
\* that id leaves the remote copy in the local store and in the list it shows.
C24_EditReplacedByRemote ==
    [][\A t \in tasks :
          (ResumeRender(t) /\ EditKeptLocallyOnly /\ HasId(t.resp, modal.id)) =>
              /\ HoldsCopyOf(GetAllEntries(slot'), modal.id, t.resp)
              /\ HoldsCopyOf(cards', modal.id, t.resp)]_vars

\* C24 amended: the list the render shows holds the remote copy; the local store
\* holds it when the merge's write to the slot succeeded and is as before when
\* that write threw.
C24_EditReplacedWhenWritten ==
    [][\A t \in tasks :
          (ResumeRender(t) /\ EditKeptLocallyOnly /\ HasId(t.resp, modal.id)) =>
              /\ \/ HoldsCopyOf(GetAllEntries(slot'), modal.id, t.resp)
                 \/ slot' = slot
              /\ HoldsCopyOf(cards', modal.id, t.resp)]_vars

\* A render is about to merge a fetched copy of the entry whose edit was kept in
\* the local store only, and the two differ.
C24_Witness ==
    /\ EditKeptLocallyOnly
    /\ \E t \in tasks :
          /\ t.pc = "fetched"
          /\ HasId(t.resp, modal.id)
          /\ ~HoldsCopyOf(GetAllEntries(slot), modal.id, t.resp)

\* C25 as claimed: an id whose delete succeeded locally and remotely is in the local
\* store in no later state.
C25_DeletedStaysGone ==
    /\ \A t \in TasksOf("delete") :
          (t.pc \in {"fetch", "fetched"} /\ t.localOk /\ t.jsonOk) =>
              ~HasId(GetAllEntries(slot), t.id)
    /\ (modal.op = "delete" /\ modal.type = "success" /\ modal.localOk /\ modal.jsonOk)
          => ~HasId(GetAllEntries(slot), modal.id)

\* C26 as claimed: the render a delete triggers after reporting success leaves no
\* entry of the deleted id in the local store nor in the list it shows.
C26_ReportedDeleteIsGone ==
    [][\A t \in TasksOf("delete") :
          ResumeRender(t) =>
              /\ ~HasId(GetAllEntries(slot'), t.id)
              /\ counter' > 0 => ~HasId(cards', t.id)]_vars

\* The positions of s that hold the entry a create made: its timestamp, title and
\* content.
CopiesOf(s, t) ==
    {i \in DOMAIN s : /\ s[i].timestamp = t.ts
                      /\ s[i].title = t.inp.title
                      /\ s[i].content = t.inp.content}

\* C27 as claimed: when a create is the only handler that ran and both its writes
\* succeeded, its render leaves one entry for the creation in the local store and
\* in the list it shows.
C27_OneEntryPerCreate ==
    [][\A t \in TasksOf("create") :
          (ResumeRender(t) /\ ops = 1 /\ t.localOk /\ t.jsonOk) =>
              /\ Cardinality(CopiesOf(GetAllEntries(slot'), t)) = 1
              /\ Cardinality(CopiesOf(cards', t)) = 1]_vars

\* C28 as claimed: the counter shows the number of dynamic cards displayed, also
\* after a render of the empty sequence.
C28_CounterMatchesCards ==
    counter = Len(cards)

\* C29: a render whose fetch yielded the empty sequence leaves the slot as it was
\* and lists the entries of the local store; a render rewrites the slot only when
\* its fetch yielded an entry.
C29_EmptyFetchKeepsLocal ==
    [][\A t \in tasks :
          ResumeRender(t) =>
              LET loc == GetAllEntries(slot)
              IN  /\ t.resp = <<>> =>
                        /\ slot' = slot
                        /\ counter' = Len(loc)
                        /\ Len(loc) > 0 => cards' = Reverse(loc)
                  /\ slot' # slot => t.resp # <<>>]_vars

\* The first render got nothing from a remote that holds entries, and listed the
\* local entry, which the local store still holds in its own version.
C29_Witness ==
    /\ ready
    /\ tasks = {}
    /\ ops = 0
    /\ remote = <<OldRemote, OldShared>>
    /\ slot = Stringify(<<OldLocal>>)
    /\ cards = <<OldLocal>>
    /\ counter = 1

\* The form changes, once in update mode, only by another edit click or by the
\* answer to an update whose remote write succeeded, which resets it.
FormLeavesUpdateMode ==
    (InUpdateMode /\ form' # form) =>
        \/ EditClick
        \/ /\ form' = CreateMode
           /\ \E t \in TasksOf("update") : AnswerWrite(t)
           /\ modal'.op = "update" /\ modal'.type = "success" /\ modal'.jsonOk

\* A submission in update mode starts no create and adds no entry: it is an update
\* of the editing id.
UpdateModeSubmitsUpdate ==
    (SubmitForm /\ InUpdateMode) =>
        /\ \A t \in tasks' \ tasks : t.op = "update" /\ t.id = form.editingId
        /\ IdsOf(GetAllEntries(slot')) \subseteq IdsOf(GetAllEntries(slot))
        /\ now' = now

\* C30: the form leaves update mode only through a submitted update whose remote
\* write succeeded; a failed remote update, a delete (of the entry edited too), a
\* clear-all and a render leave mode and editing id as they are, and a submission
\* in update mode is an update of that id, never a create.
C30_UpdateModeSticks ==
    /\ [][FormLeavesUpdateMode]_vars
    /\ [][UpdateModeSubmitsUpdate]_vars

\* The entry being edited was deleted, and the submission that followed was taken
\* as an update of its id and failed, the form still in update mode for it.
C30_Witness ==
    /\ InUpdateMode
    /\ ~HasId(GetAllEntries(slot), form.editingId)
    /\ ~HasId(remote, form.editingId)
    /\ modal.op = "update" /\ modal.type = "error" /\ ~modal.localOk
    /\ modal.id = form.editingId

-----------------------------------------------------------------------------
(* SpecWorker: the service worker (service-worker.js). mIn is the worker's  *)
(* world: its lifecycle phase, the origin's cache storage, the version of   *)
(* the site the server serves and the number of network requests made;      *)
(* mLog holds one record per fetch event handled.                           *)

\* Fetch events handled per behaviour.
MaxFetches == 2

\* Times the site is redeployed (its served content changes) per behaviour.
MaxDeploys == 1

\* service-worker.js:1.
CACHE_NAME == "my-journal-cache-v2"

\* service-worker.js:2-13.
urlsToCache ==
    <<"/", "/journal", "/projects", "/about", "/static/css/style.css",
      "/static/js/main.js", "/static/js/storage.js", "/static/images/profile.jpeg",
      "/static/images/icons-192.png", "/static/images/icons-512.png">>

\* The elements of a sequence.
Range(s) ==
    {s[i] : i \in DOMAIN s}

\* The cache an earlier version of the worker left behind: a page since removed
\* from the list and an older copy of the main script.
OldCache ==
    [name |-> "my-journal-cache-v1",
     entries |-> [u \in {"/offline", "/static/js/main.js"} |-> 0]]

\* The requests the pages issue: cached and uncached URLs, reads and a write.
Requests ==
    {[url |-> "/journal", method |-> "GET"],
     [url |-> "/static/js/main.js", method |-> "GET"],
     [url |-> "/offline", method |-> "GET"],
     [url |-> "/api/reflections", method |-> "GET"],
     [url |-> "/journal", method |-> "POST"]}

\* No response: what caches.match resolves to when nothing matches.
Undefined ==
    [source |-> "none", url |-> "", ver |-> 0]

\* A response: where it came from, for which URL, and the version of the content.
Response(source, url, ver) ==
    [source |-> source, url |-> url, ver |-> ver]

\* The network error respondWith ends in when fetch(event.request) rejects.
NetworkError(url) ==
    [source |-> "neterr", url |-> url, ver |-> 0]

\* The position of the cache of that name in the cache storage, 0 when absent.
CacheIndex(cs, name) ==
    IF \E i \in DOMAIN cs : cs[i].name = name
    THEN CHOOSE i \in DOMAIN cs : cs[i].name = name
    ELSE 0

\* service-worker.js:17, caches.open(CACHE_NAME): the cache of that name, created
\* empty at the end of the storage when there is none.
CachesOpen(cs, name) ==
    IF CacheIndex(cs, name) # 0
    THEN cs
    ELSE Append(cs, [name |-> name, entries |-> << >>])

\* service-worker.js:18, cache.addAll(urls): every URL is requested; when all the
\* requests succeed each response is stored under its URL, replacing what was
\* there, and when one fails nothing is stored and the promise rejects.
CacheAddAll(cache, urls, ok, ver) ==
    IF ok
    THEN [cache EXCEPT !.entries =
             [u \in DOMAIN cache.entries \cup Range(urls) |->
                 IF u \in Range(urls) THEN ver ELSE cache.entries[u]]]
    ELSE cache

\* service-worker.js:26, the caches that activate deletes are those of another name.
KeptByActivate(cs) ==
    SelectSeq(cs, LAMBDA c : c.name = CACHE_NAME)

\* service-worker.js:33, caches.match(event.request): the first cache of the
\* storage, in creation order, that holds a response for the request's URL gives
\* it; only a GET request matches.
CachesMatch(cs, req) ==
    LET hits == {i \in DOMAIN cs : req.url \in DOMAIN cs[i].entries}
    IN  IF req.method # "GET" \/ hits = {}
        THEN Undefined
        ELSE LET i == CHOOSE k \in hits : \A j \in hits : k <= j
             IN  Response("cache", req.url, cs[i].entries[req.url])

\* A mutant of FetchHandler: a response taken from the network is also put in
\* the worker's cache.
FetchHandlerCaching(cs, req, netOk, ver) ==
    LET response == CachesMatch(cs, req)
        opened == CachesOpen(cs, CACHE_NAME)
        k == CacheIndex(opened, CACHE_NAME)
    IN  IF response # Undefined
        THEN [answer |-> response, caches |-> cs, requests |-> 0]
        ELSE [answer |-> IF netOk THEN Response("network", req.url, ver)
                                  ELSE NetworkError(req.url),
              caches |-> IF netOk
                         THEN [opened EXCEPT ![k] =
                                  CacheAddAll(opened[k], <<req.url>>, TRUE, ver)]
                         ELSE cs,
              requests |-> 1]

\* service-worker.js:31-36, the fetch handler: the matching cached response when
\* there is one, else fetch(event.request); the cache storage is not written.
FetchHandler(cs, req, netOk, ver) ==
    LET response == CachesMatch(cs, req)
    IN  IF response # Undefined
        THEN [answer |-> response, caches |-> cs, requests |-> 0]
        ELSE [answer |-> IF netOk THEN Response("network", req.url, ver)
                                  ELSE NetworkError(req.url),
              caches |-> cs,
              requests |-> 1]

WorkerInit ==
    /\ NoMain
    /\ slot = Absent
    /\ mIn \in {[phase |-> "parsed", caches |-> cs, ver |-> 0, requests |-> 0,
                 stored |-> << >>] : cs \in {<< >>, <<OldCache>>}}
    /\ mLog = <<>>

\* service-worker.js:15-20, the install event: the cache is opened and filled with
\* the listed URLs; the worker is installed when addAll resolves and redundant
\* when it rejects.
WorkerInstall ==
    /\ mIn.phase = "parsed"
    /\ \E ok \in BOOLEAN :
         LET opened == CachesOpen(mIn.caches, CACHE_NAME)
             k == CacheIndex(opened, CACHE_NAME)
             filled == CacheAddAll(opened[k], urlsToCache, ok, mIn.ver)
         IN  mIn' = [mIn EXCEPT
                        !.phase = IF ok THEN "installed" ELSE "redundant",
                        !.caches = [opened EXCEPT ![k] = filled],
                        !.requests = @ + Len(urlsToCache),
                        !.stored = filled.entries]
    /\ UNCHANGED <<slot, mainVars, mLog>>

\* service-worker.js:22-29, the activate event: the caches of another name are
\* deleted; fetch events are dispatched once it has settled.
WorkerActivate ==
    /\ mIn.phase = "installed"
    /\ mIn' = [mIn EXCEPT !.phase = "active", !.caches = KeptByActivate(@)]
    /\ UNCHANGED <<slot, mainVars, mLog>>

\* One fetch event of a controlled page, handled by the active worker.
WorkerFetch ==
    /\ mIn.phase = "active"
    /\ Len(mLog) < MaxFetches
    /\ \E req \in Requests, netOk \in BOOLEAN :
         LET r == FetchHandler(mIn.caches, req, netOk, mIn.ver)
         IN  /\ mIn' = [mIn EXCEPT !.caches = r.caches,
                                   !.requests = @ + r.requests]
             /\ mLog' = Append(mLog, [req |-> req, answer |-> r.answer,
                                      netOk |-> netOk, ver |-> mIn.ver,
                                      before |-> mIn.caches, after |-> r.caches,
                                      requests |-> r.requests])
    /\ UNCHANGED <<slot, mainVars>>

\* The site is redeployed: the server serves new content under the same URLs.
Deploy ==
    /\ mIn.ver < MaxDeploys
    /\ mIn' = [mIn EXCEPT !.ver = @ + 1]
    /\ UNCHANGED <<slot, mainVars, mLog>>

WorkerNext ==
    \/ WorkerInstall
    \/ WorkerActivate
    \/ WorkerFetch
    \/ Deploy

SpecWorker == WorkerInit /\ [][WorkerNext]_vars

-----------------------------------------------------------------------------
(* C31: the fetch handler of the service worker. *)

\* The cache storage holds a response for the request.
HasCached(cs, req) ==
    /\ req.method = "GET"
    /\ \E i \in DOMAIN cs : req.url \in DOMAIN cs[i].entries

\* Every fetch handled was answered from the cache without a network request when
\* a cached response matched, and by one network request otherwise, and left the
\* cache storage as it found it.
FetchesCacheFirstReadOnly ==
    \A i \in DOMAIN mLog :
        LET c == mLog[i]
        IN  /\ c.after = c.before
            /\ HasCached(c.before, c.req) =>
                  /\ c.answer.source = "cache"
                  /\ c.answer.url = c.req.url
                  /\ c.requests = 0
            /\ ~HasCached(c.before, c.req) =>
                  /\ c.requests = 1
                  /\ c.answer = IF c.netOk THEN Response("network", c.req.url, c.ver)
                                           ELSE NetworkError(c.req.url)

\* While the worker is active the cache storage is the one cache of the worker's
\* name, holding for each listed URL the response install stored and nothing else.
CacheIsWhatInstallStored ==
    mIn.phase = "active" =>
        /\ Len(mIn.caches) = 1
        /\ mIn.caches[1].name = CACHE_NAME
        /\ mIn.caches[1].entries = mIn.stored
        /\ DOMAIN mIn.stored = Range(urlsToCache)

\* C31: the fetch handler is cache-first and read-only: a request a cached response
\* matches is answered from the cache with no network request, any other request
\* is answered from the network, no fetch changes the cache storage, and the
\* cached responses are those install stored for as long as the worker is active.
C31_FetchCacheFirstReadOnly ==
    /\ FetchesCacheFirstReadOnly
    /\ CacheIsWhatInstallStored

\* After a redeployment one fetch was answered from the cache with the content
\* stored at install and another went to the network, and the cache is unchanged.
C31_Witness ==
    /\ mIn.phase = "active"
    /\ Len(mLog) = 2
    /\ mLog[1].answer.source = "cache" /\ mLog[1].answer.ver < mLog[1].ver
    /\ mLog[2].answer.source = "network" /\ mLog[2].req.method = "GET"
    /\ mIn.caches[1].entries = mIn.stored

=============================================================================
